---------------------------- MODULE Spec2Model ----------------------------
(***************************************************************************)
(* Brush Tag Selector docker (brush_tag_selector_docker.py).               *)
(*                                                                         *)
(* Two objects are modelled:                                               *)
(*   - FlowLayout: the wrapping layout manager (itemList, the layout's own *)
(*     geometry, and the last layout call with the value it returned);     *)
(*   - BrushTagSelectorDocker: the panel that mirrors the host selector.   *)
(*                                                                         *)
(* Toolkit facts used (PyQt5):                                             *)
(*   - QRect.right() returns left() + width() - 1;                         *)
(*   - a bare Python integer is true when it is not 0;                     *)
(*   - in an exclusive QButtonGroup checking a button unchecks the others  *)
(*     and setChecked(False) on the checked button does nothing;           *)
(*   - an empty QComboBox gets index 0 with its first row; a model reset   *)
(*     leaves no current item;                                             *)
(*   - whether an empty QComboBox tests false (__len__) is the binding's   *)
(*     choice: both are followed (lenAsBool).                              *)
(***************************************************************************)
EXTENDS Integers, Sequences, FiniteSets

(***************************************************************************)
(* Bounds of the model.                                                    *)
(***************************************************************************)
MaxItems == 3
MaxTags == 2
MaxFaults == 1

\* Size hints (width, height) the items may carry.
Hint(w, h) == [w |-> w, h |-> h]
Hints == { Hint(50, 20), Hint(60, 20), Hint(40, 20), Hint(200, 30), Hint(50, 0) }

\* Container rectangles handed to setGeometry, and widths handed to
\* heightForWidth.
QRect(x, y, w, h) == [x |-> x, y |-> y, w |-> w, h |-> h]
RectWidths == {30, 100, 101}
RectOrigins == { <<0, 0>>, <<10, 5>> }
Rects == { QRect(o[1], o[2], w, 80) : o \in RectOrigins, w \in RectWidths }

VARIABLES
    itemList,   \* FlowLayout.itemList: sequence of [hint, geom]
    geometry,   \* the layout's own rectangle (QLayout.setGeometry)
    lastCall    \* the last FlowLayout call: [name, rect, ret, moved]; moved
                \* records whether the call changed itemList

layoutVars == <<itemList, geometry, lastCall>>

VARIABLES
    hostPresent,  \* the host has a PresetDocker with a QComboBox child
    hostItems,    \* the host selector's item texts, in order
    hostIndex,    \* the host selector's currentIndex (0-based, -1: none)
    lenAsBool,    \* the binding gives QComboBox __len__ (= count()), so an
                  \* empty selector tests false in 'if combo' / 'not combo'
    started,      \* the single-shot timer has fired (_initialize has run)
    combo,        \* self._combo refers to the host selector (else None)
    changing,     \* self._changing
    buttons,      \* self.buttons: sequence of [text, checked]
    tagsFile,     \* the mirror file tags.txt: [exists, text]
    faults        \* file operations that have failed so far

dockerVars == <<hostPresent, hostItems, hostIndex, lenAsBool, started, combo,
                changing, buttons, tagsFile, faults>>

vars == <<layoutVars, dockerVars>>

(***************************************************************************)
(* FlowLayout                                                              *)
(***************************************************************************)
\* Geometry of a widget that no layout has placed yet.
DefaultGeometry == QRect(0, 0, 100, 30)

NewItem(hint) == [hint |-> hint, geom |-> DefaultGeometry]

Max(a, b) == IF a >= b THEN a ELSE b

\* rect.right() of line 48.
QRectRight_NoOrigin(r) == r.w - 1
QRectRight_Short(r) == r.x + r.w - 2
QRectRight(r) == r.x + r.w - 1

\* QRect(QPoint(x, y), item.sizeHint()) of line 53.
ItemGeometry_Transposed(x, y, hint) == QRect(y, x, hint.h, hint.w)
ItemGeometry(x, y, hint) == QRect(x, y, hint.w, hint.h)

\* One iteration of the loop of _doLayout: st is [x, y, lineHeight, done].
LayoutStep_AlwaysCommit(st, item, r, testOnly) ==
    LET w == item.hint.w
        h == item.hint.h
        wrap == (st.x + w > QRectRight(r)) /\ (st.lineHeight # 0)
        x1 == IF wrap THEN r.x ELSE st.x
        y1 == IF wrap THEN st.y + st.lineHeight ELSE st.y
        lh1 == IF wrap THEN 0 ELSE st.lineHeight
    IN  [x |-> x1 + w, y |-> y1, lineHeight |-> Max(lh1, h),
         done |-> Append(st.done,
                         [item EXCEPT !.geom = ItemGeometry(x1, y1, item.hint)])]
LayoutStep_SkipSameSize(st, item, r, testOnly) ==
    LET w == item.hint.w
        h == item.hint.h
        wrap == (st.x + w > QRectRight(r)) /\ (st.lineHeight # 0)
        x1 == IF wrap THEN r.x ELSE st.x
        y1 == IF wrap THEN st.y + st.lineHeight ELSE st.y
        lh1 == IF wrap THEN 0 ELSE st.lineHeight
        placed == IF testOnly \/ (item.geom.w = w /\ item.geom.h = h)
                  THEN item
                  ELSE [item EXCEPT !.geom = ItemGeometry(x1, y1, item.hint)]
    IN  [x |-> x1 + w, y |-> y1, lineHeight |-> Max(lh1, h),
         done |-> Append(st.done, placed)]
LayoutStep_LastHeight(st, item, r, testOnly) ==
    LET w == item.hint.w
        h == item.hint.h
        wrap == (st.x + w > QRectRight(r)) /\ (st.lineHeight # 0)
        x1 == IF wrap THEN r.x ELSE st.x
        y1 == IF wrap THEN st.y + st.lineHeight ELSE st.y
        placed == IF testOnly
                  THEN item
                  ELSE [item EXCEPT !.geom = ItemGeometry(x1, y1, item.hint)]
    IN  [x |-> x1 + w, y |-> y1, lineHeight |-> h,
         done |-> Append(st.done, placed)]
LayoutStep_Spacing(st, item, r, testOnly) ==
    LET w == item.hint.w
        h == item.hint.h
        wrap == (st.x + w > QRectRight(r)) /\ (st.lineHeight # 0)
        x1 == IF wrap THEN r.x ELSE st.x
        y1 == IF wrap THEN st.y + st.lineHeight ELSE st.y
        lh1 == IF wrap THEN 0 ELSE st.lineHeight
        placed == IF testOnly
                  THEN item
                  ELSE [item EXCEPT !.geom = ItemGeometry(x1, y1, item.hint)]
    IN  [x |-> x1 + w + 3, y |-> y1, lineHeight |-> Max(lh1, h),
         done |-> Append(st.done, placed)]
LayoutStep(st, item, r, testOnly) ==
    LET w == item.hint.w
        h == item.hint.h
        wrap == (st.x + w > QRectRight(r)) /\ (st.lineHeight # 0)
        x1 == IF wrap THEN r.x ELSE st.x
        y1 == IF wrap THEN st.y + st.lineHeight ELSE st.y
        lh1 == IF wrap THEN 0 ELSE st.lineHeight
        placed == IF testOnly
                  THEN item
                  ELSE [item EXCEPT !.geom = ItemGeometry(x1, y1, item.hint)]
    IN  [x |-> x1 + w, y |-> y1, lineHeight |-> Max(lh1, h),
         done |-> Append(st.done, placed)]

RECURSIVE LayoutLoop(_, _, _, _)
LayoutLoop(st, rest, r, testOnly) ==
    IF rest = <<>>
    THEN st
    ELSE LayoutLoop(LayoutStep(st, Head(rest), r, testOnly), Tail(rest), r, testOnly)

\* _doLayout(rect, testOnly): the items after the pass and the value returned.
DoLayout(items, r, testOnly) ==
    LET fin == LayoutLoop([x |-> r.x, y |-> r.y, lineHeight |-> 0, done |-> <<>>],
                          items, r, testOnly)
    IN  [items |-> fin.done, ret |-> fin.y + fin.lineHeight - r.y]

Call(name, r, ret, moved) == [name |-> name, rect |-> r, ret |-> ret, moved |-> moved]

LayoutInit ==
    /\ itemList = <<>>
    /\ geometry = QRect(0, 0, 0, 0)
    /\ lastCall = Call("__init__", QRect(0, 0, 0, 0), 0, FALSE)

addItem ==
    /\ Len(itemList) < MaxItems
    /\ \E hint \in Hints :
         itemList' = Append(itemList, NewItem(hint))
    /\ lastCall' = Call("addItem", geometry, 0, TRUE)
    /\ UNCHANGED <<geometry, dockerVars>>

\* itemList.pop(i) for a valid index (0-based), else nothing is removed.
RemoveAt(items, i) ==
    IF 0 <= i /\ i < Len(items)
    THEN SubSeq(items, 1, i) \o SubSeq(items, i + 2, Len(items))
    ELSE items

heightForWidth ==
    \E width \in RectWidths :
      \E res \in { DoLayout(itemList, QRect(0, 0, width, 0), TRUE) } :
        /\ itemList' = res.items
        /\ lastCall' = Call("heightForWidth", QRect(0, 0, width, 0), res.ret,
                            res.items # itemList)
        /\ UNCHANGED <<geometry, dockerVars>>

setGeometry ==
    \E r \in Rects :
      \E res \in { DoLayout(itemList, r, FALSE) } :
        /\ geometry' = r
        /\ itemList' = res.items
        /\ lastCall' = Call("setGeometry", r, res.ret, res.items # itemList)
        /\ UNCHANGED dockerVars

LayoutNext == addItem \/ heightForWidth \/ setGeometry

(***************************************************************************)
(* BrushTagSelectorDocker                                                  *)
(***************************************************************************)
\* Labels are sequences of characters; the host may hold any of these.
Newline == "\n"
Whitespace == {" ", Newline}
Labels == { <<"a">>, <<"b">>, <<"a", " ">> }

\* Item lists a model reset may bring in (none longer than MaxTags).
ResetLists ==
    { q \in { <<>>, << <<"b">>, <<"a">> >>, << <<"a">>, <<"a">>, <<"b">> >> } :
        Len(q) <= MaxTags }

\* The file as text; 'for t in tags: f.write(t + "\n")'.
RECURSIVE FileText(_)
FileText(tags) ==
    IF tags = <<>> THEN <<>>
    ELSE Head(tags) \o <<Newline>> \o FileText(Tail(tags))

NoFile == [exists |-> FALSE, text |-> <<>>]
FileOf(tags) == [exists |-> TRUE, text |-> FileText(tags)]
InitialFiles == { NoFile, FileOf(<< <<"b">> >>) }

\* Iterating a text file: the lines, each with its line end.
RECURSIVE SplitLines(_, _)
SplitLines(text, line) ==
    IF text = <<>>
    THEN (IF line = <<>> THEN <<>> ELSE <<line>>)
    ELSE IF Head(text) = Newline
         THEN <<Append(line, Newline)>> \o SplitLines(Tail(text), <<>>)
         ELSE SplitLines(Tail(text), Append(line, Head(text)))

\* str.strip(): without leading and trailing whitespace.
RECURSIVE LStrip(_)
LStrip(str) ==
    IF str # <<>> /\ Head(str) \in Whitespace THEN LStrip(Tail(str)) ELSE str
RECURSIVE RStrip(_)
RStrip(str) ==
    IF str # <<>> /\ str[Len(str)] \in Whitespace
    THEN RStrip(SubSeq(str, 1, Len(str) - 1))
    ELSE str
Strip(str) == RStrip(LStrip(str))

\* [l.strip() for l in f if l.strip()]
RECURSIVE StripNonBlank(_)
StripNonBlank(lines) ==
    IF lines = <<>> THEN <<>>
    ELSE IF Strip(Head(lines)) = <<>>
         THEN StripNonBlank(Tail(lines))
         ELSE <<Strip(Head(lines))>> \o StripNonBlank(Tail(lines))
ReadTags(text) == StripNonBlank(SplitLines(text, <<>>))

\* self._combo.itemText(i), self._combo.currentText()
ItemText(items, i) == IF 0 <= i /\ i < Len(items) THEN items[i + 1] ELSE <<>>
CurrentText(items, index) == ItemText(items, index)

\* 'if combo' / 'not self._combo': None is false; with __len__ an empty
\* selector is false as well.
ComboTrue(ref, items) == ref /\ (lenAsBool => Len(items) > 0)

FindPresetCombo_Always == TRUE

\* _find_preset_combo: the selector, or None.
FindPresetCombo == hostPresent /\ ComboTrue(TRUE, hostItems)

SetChecked_NonExclusive(btns, i, value) == [btns EXCEPT ![i].checked = value]

\* b.setChecked(value) for button i of an exclusive QButtonGroup: checking a
\* button unchecks the others; the group's checked button cannot be unchecked.
SetChecked(btns, i, value) ==
    IF btns[i].checked = value THEN btns
    ELSE IF value
         THEN [j \in 1..Len(btns) |-> [btns[j] EXCEPT !.checked = (j = i)]]
         ELSE btns

\* _sync_button_state(text): for b in self.buttons: b.setChecked(b.text() == text)
RECURSIVE SyncFrom(_, _, _)
SyncFrom(btns, i, text) ==
    IF i > Len(btns) THEN btns
    ELSE SyncFrom(SetChecked(btns, i, btns[i].text = text), i + 1, text)
SyncButtonState(btns, text) == SyncFrom(btns, 1, text)

\* _sync_tags_from_krita: the file after the call. outcome: "ok", "openFailed"
\* (open raised, file untouched) or "writeFailed" (opened, so truncated, and
\* nothing written).
WriteOutcomes == {"ok", "openFailed", "writeFailed"}
SyncTagsFromKrita(file, ref, items, outcome) ==
    IF ~ComboTrue(ref, items) THEN file
    ELSE IF outcome = "ok" THEN FileOf(items)
    ELSE IF outcome = "writeFailed" THEN [exists |-> TRUE, text |-> <<>>]
    ELSE file

NewButton(tag) == [text |-> tag, checked |-> FALSE]

\* _rebuild_buttons: self.buttons after the call.
RebuildButtons(file, readOk, ref, items, index) ==
    IF ~file.exists \/ ~readOk THEN <<>>
    ELSE LET tags == ReadTags(file.text)
             fresh == [i \in 1..Len(tags) |-> NewButton(tags[i])]
         IN  IF ComboTrue(ref, items)
             THEN SyncButtonState(fresh, CurrentText(items, index))
             ELSE fresh

\* QPushButton(tag).sizeHint(): the toolkit's, wider for a longer label.
ButtonSizeHint(text) == Hint(10 * Len(text) + 20, 20)

\* The flow after _rebuild_buttons: removeWidget takes every old button's item
\* out (takeAt), addWidget appends an item for every new button (addItem).
RECURSIVE TakeAll(_, _)
TakeAll(items, n) == IF n = 0 THEN items ELSE TakeAll(RemoveAt(items, 0), n - 1)
FlowAfterRebuild(items, nOld, btns) ==
    TakeAll(items, nOld) \o [i \in 1..Len(btns) |-> NewItem(ButtonSizeHint(btns[i].text))]

\* _on_combo_changed(text): self.buttons after the call.
OnComboChanged(btns, guard, text) ==
    IF guard THEN btns ELSE SyncButtonState(btns, text)

DockerInit ==
    /\ hostPresent \in BOOLEAN
    /\ hostItems = <<>>
    /\ hostIndex = -1
    /\ lenAsBool \in BOOLEAN
    /\ started = FALSE
    /\ combo = FALSE
    /\ changing = FALSE
    /\ buttons = <<>>
    /\ tagsFile \in InitialFiles
    /\ faults = 0

\* _sync_tags_from_krita followed by _rebuild_buttons, with the flow updated.
\* The write is attempted when the selector tests true, the read when the
\* file exists; either may fail while faults < MaxFaults.
SyncAndRebuild(ref, items, index) ==
    \E outcome \in WriteOutcomes, readOk \in BOOLEAN :
      /\ ComboTrue(ref, items) \/ outcome = "ok"
      /\ tagsFile' = SyncTagsFromKrita(tagsFile, ref, items, outcome)
      /\ tagsFile'.exists \/ readOk
      /\ faults' = faults + (IF outcome # "ok" THEN 1 ELSE 0)
                           + (IF ~readOk THEN 1 ELSE 0)
      /\ faults' <= MaxFaults
      /\ buttons' = RebuildButtons(tagsFile', readOk, ref, items, index)
      /\ itemList' = FlowAfterRebuild(itemList, Len(buttons), buttons')
      /\ lastCall' = IF buttons' # <<>> THEN Call("addItem", geometry, 0, TRUE)
                     ELSE IF buttons # <<>> THEN Call("takeAt", geometry, 0, TRUE)
                     ELSE lastCall
      /\ UNCHANGED geometry

\* The single-shot timer fires: _initialize.
Initialize ==
    /\ ~started
    /\ started' = TRUE
    /\ combo' = FindPresetCombo
    /\ IF FindPresetCombo
       THEN SyncAndRebuild(TRUE, hostItems, hostIndex)
       ELSE UNCHANGED <<buttons, tagsFile, layoutVars, faults>>
    /\ UNCHANGED <<hostPresent, hostItems, hostIndex, lenAsBool, changing>>

\* The host's item list changes to items with current index index, and the
\* model's signal reaches _on_tags_changed when _initialize connected it.
\* (The selector's own slot runs first and may report an index change to
\* _on_combo_changed; that only touches the buttons _rebuild_buttons is about
\* to replace.)
ItemsChanged(items, index) ==
    /\ hostItems' = items
    /\ hostIndex' = index
    /\ IF combo
       THEN SyncAndRebuild(combo, items, index)
       ELSE UNCHANGED <<buttons, tagsFile, layoutVars, faults>>
    /\ UNCHANGED <<hostPresent, lenAsBool, started, combo, changing>>

InsertAt(items, pos, label) ==
    SubSeq(items, 1, pos) \o <<label>> \o SubSeq(items, pos + 1, Len(items))

\* rowsInserted: a row enters the host selector at position pos.
HostRowsInserted ==
    /\ hostPresent
    /\ Len(hostItems) < MaxTags
    /\ \E label \in Labels, pos \in 0..Len(hostItems) :
         ItemsChanged(InsertAt(hostItems, pos, label),
                      IF hostItems = <<>> THEN 0
                      ELSE IF hostIndex >= pos THEN hostIndex + 1
                      ELSE hostIndex)

\* rowsRemoved: the row at position pos leaves the host selector.
HostRowsRemoved ==
    /\ hostPresent
    /\ \E pos \in 0..(Len(hostItems) - 1) :
         LET items == RemoveAt(hostItems, pos)
         IN  ItemsChanged(items,
                          IF items = <<>> THEN -1
                          ELSE IF hostIndex > pos THEN hostIndex - 1
                          ELSE IF hostIndex = pos
                               THEN (IF pos > Len(items) - 1 THEN Len(items) - 1 ELSE pos)
                          ELSE hostIndex)

\* modelReset: the host replaces the item list; no item is current after it.
HostModelReset ==
    /\ hostPresent
    /\ \E items \in ResetLists :
         ItemsChanged(items, -1)

\* The host (or its user) selects another item: currentIndexChanged[str]
\* reaches _on_combo_changed when _initialize connected it.
HostSelects ==
    /\ hostPresent
    /\ \E index \in -1..(Len(hostItems) - 1) :
         /\ index # hostIndex
         /\ hostIndex' = index
         /\ IF combo
            THEN buttons' = OnComboChanged(buttons, changing, CurrentText(hostItems, index))
            ELSE UNCHANGED buttons
    /\ UNCHANGED <<hostPresent, hostItems, lenAsBool, started, combo, changing,
                   tagsFile, layoutVars, faults>>

\* The index _on_button_clicked selects: the first item whose text is the
\* button's, or -1 when there is none.
FirstIndexOf(items, text) ==
    IF \E i \in 0..(Len(items) - 1) : ItemText(items, i) = text
    THEN CHOOSE i \in 0..(Len(items) - 1) :
           /\ ItemText(items, i) = text
           /\ \A j \in 0..(i - 1) : ItemText(items, j) # text
    ELSE -1

\* _on_button_clicked leaves the guard cleared: line 161 resets it after
\* setCurrentIndex, and a click that found no item never set it.
GuardAfterClick_Stuck(found) == found

GuardAfterClick(found) == FALSE

\* The user clicks button k: the exclusive group checks it, then
\* buttonClicked reaches _on_button_clicked.  setCurrentIndex runs with
\* _changing set, so the _on_combo_changed it triggers returns at once.
OnButtonClicked(k) ==
    LET clicked == SetChecked(buttons, k, TRUE)
        target == IF ComboTrue(combo, hostItems)
                  THEN FirstIndexOf(hostItems, buttons[k].text)
                  ELSE -1
        during == target # -1
        after == IF during /\ target # hostIndex
                 THEN OnComboChanged(clicked, during, CurrentText(hostItems, target))
                 ELSE clicked
    IN  /\ buttons' = after
        /\ hostIndex' = IF target # -1 THEN target ELSE hostIndex
        /\ changing' = GuardAfterClick(during)
        /\ UNCHANGED <<hostPresent, hostItems, lenAsBool, started, combo,
                       tagsFile, layoutVars, faults>>

ButtonClicked == \E k \in 1..Len(buttons) : OnButtonClicked(k)

DockerNext ==
    \/ Initialize
    \/ HostRowsInserted
    \/ HostRowsRemoved
    \/ HostModelReset
    \/ HostSelects
    \/ ButtonClicked

Init == LayoutInit /\ DockerInit
Next == DockerNext
Spec == Init /\ [][Next]_vars

(***************************************************************************)
(* FlowLayout on its own: any items, any rectangles; the docker is idle.   *)
(***************************************************************************)
DockerIdle ==
    /\ hostPresent = FALSE
    /\ hostItems = <<>>
    /\ hostIndex = -1
    /\ lenAsBool = TRUE
    /\ started = FALSE
    /\ combo = FALSE
    /\ changing = FALSE
    /\ buttons = <<>>
    /\ tagsFile = NoFile
    /\ faults = 0

LayoutOnlyInit == LayoutInit /\ DockerIdle
LayoutSpec == LayoutOnlyInit /\ [][LayoutNext]_vars

(***************************************************************************)
(* Properties of FlowLayout, checked under LayoutSpec.                     *)
(***************************************************************************)
Committed == lastCall.name = "setGeometry"
Measured == lastCall.name = "heightForWidth"
NItems == Len(itemList)
HintOf(i) == itemList[i].hint
GeomOf(i) == itemList[i].geom

RECURSIVE SumWidths(_)
SumWidths(items) ==
    IF items = <<>> THEN 0 ELSE Head(items).hint.w + SumWidths(Tail(items))

MaxOf(S) == CHOOSE m \in S : \A k \in S : k <= m

\* The items placed on the band whose top is y, and that band's tallest height.
RowAt(y) == { i \in 1..NItems : GeomOf(i).y = y }
RowTallestAt(y) == MaxOf({ HintOf(i).h : i \in RowAt(y) })
RowYs == { GeomOf(i).y : i \in 1..NItems }

RECURSIVE SumRowTallest(_)
SumRowTallest(ys) ==
    IF ys = {} THEN 0
    ELSE LET y == CHOOSE k \in ys : TRUE
         IN  RowTallestAt(y) + SumRowTallest(ys \ {y})

\* C1 (as claimed): after a commit pass every item after the first stays on
\* the row of its predecessor exactly when the running x-offset plus its width
\* does not exceed originX + containerWidth; otherwise it is placed at
\* x = originX on a new row whose y is the previous row's y plus that row's
\* tallest height.
C1_WrapAtRightEdge ==
    Committed =>
      \A i \in 2..NItems :
        LET r == lastCall.rect
            runX == GeomOf(i - 1).x + HintOf(i - 1).w
            fits == runX + HintOf(i).w <= r.x + r.w
        IN  IF fits
            THEN GeomOf(i).x = runX /\ GeomOf(i).y = GeomOf(i - 1).y
            ELSE /\ GeomOf(i).x = r.x
                 /\ GeomOf(i).y = GeomOf(i - 1).y + RowTallestAt(GeomOf(i - 1).y)

\* C2 (as claimed): items (50,20),(60,20),(40,20) in a container of width 100
\* at origin (0,0): item 0 at (0,0), item 1 at (0,20), item 2 on the row of
\* item 1 (y = 20), and the total height is 40 (in a commit pass and in a
\* measure pass).
C2Items == << Hint(50, 20), Hint(60, 20), Hint(40, 20) >>
C2Case ==
    /\ NItems = 3
    /\ \A i \in 1..3 : HintOf(i) = C2Items[i]
    /\ lastCall.rect.x = 0 /\ lastCall.rect.y = 0 /\ lastCall.rect.w = 100
C2_ConcreteScenario ==
    /\ (C2Case /\ Committed) =>
          /\ GeomOf(1).x = 0 /\ GeomOf(1).y = 0
          /\ GeomOf(2).x = 0 /\ GeomOf(2).y = 20
          /\ GeomOf(3).y = 20
          /\ lastCall.ret = 40
    /\ (C2Case /\ Measured) => lastCall.ret = 40

\* C3 (as claimed): if the container is at least as wide as the widest item,
\* a commit pass puts all items on one row (same y), x non-decreasing in
\* input order.  Passes in which some item would end exactly on the right
\* edge are left out, so that the wrap test's off-by-one (C1) plays no part
\* in a violation.
SingleRowInOrder ==
    /\ \A i \in 1..NItems : GeomOf(i).y = lastCall.rect.y
    /\ \A i \in 2..NItems : GeomOf(i - 1).x <= GeomOf(i).x
NoExactFit ==
    \A i \in 2..NItems :
      GeomOf(i - 1).x + HintOf(i - 1).w + HintOf(i).w
        # lastCall.rect.x + lastCall.rect.w
C3_WidestItemFits ==
    (/\ Committed
     /\ \A i \in 1..NItems : HintOf(i).w <= lastCall.rect.w
     /\ NoExactFit)
      => SingleRowInOrder

\* C3 (amended): if the widths of all items sum to less than the container
\* width, a commit pass puts all items on one row (y = originY), each item
\* directly after its predecessor, so x is non-decreasing in input order.
C3_SumOfWidthsFits ==
    (Committed /\ SumWidths(itemList) < lastCall.rect.w)
      => /\ SingleRowInOrder
         /\ \A i \in 1..NItems :
              GeomOf(i).x = lastCall.rect.x + SumWidths(SubSeq(itemList, 1, i - 1))
C3_Witness ==
    /\ Committed
    /\ NItems >= 2
    /\ SumWidths(itemList) < lastCall.rect.w
    /\ GeomOf(NItems).x > lastCall.rect.x

\* C4 (as claimed): if the container is narrower than every item, a commit
\* pass starts a new row with every item: each item is at x = originX and no
\* two items have the same y.
C4_OneItemPerRow ==
    (Committed /\ \A i \in 1..NItems : lastCall.rect.w < HintOf(i).w)
      => /\ \A i \in 1..NItems : GeomOf(i).x = lastCall.rect.x
         /\ \A i, j \in 1..NItems : i # j => GeomOf(i).y # GeomOf(j).y

\* C5: the height heightForWidth(w) returns equals the height a commit pass
\* over the same items computes for any rectangle of width w, whatever its
\* origin.
C5_MeasureEqualsCommit ==
    /\ Committed =>
         DoLayout(itemList, QRect(0, 0, lastCall.rect.w, 0), TRUE).ret = lastCall.ret
    /\ Measured =>
         \A r \in Rects :
           r.w = lastCall.rect.w => DoLayout(itemList, r, FALSE).ret = lastCall.ret
C5_Witness ==
    /\ Committed
    /\ lastCall.rect.x # 0 /\ lastCall.rect.y # 0
    /\ NItems >= 2
    /\ Cardinality(RowYs) >= 2
    /\ DoLayout(itemList, QRect(0, 0, lastCall.rect.w, 0), TRUE).ret = lastCall.ret

\* C6: a measure pass (heightForWidth) leaves the item list, the geometry of
\* every item and the layout's own rectangle as they were.
C6_MeasureChangesNothing ==
    [][lastCall'.name = "heightForWidth"
         => (itemList' = itemList /\ geometry' = geometry)]_vars
C6_Witness ==
    /\ Measured
    /\ NItems >= 2
    /\ \A i \in 1..NItems : GeomOf(i) # DefaultGeometry
    /\ DoLayout(itemList, lastCall.rect, FALSE).items # itemList

\* C7: the result of a commit pass depends on the size hints and on the
\* rectangle only: positions and total height are those a pass over freshly
\* added items with the same hints produces, whatever passes ran before.
FreshItems == [i \in 1..NItems |-> NewItem(HintOf(i))]
C7_Stateless ==
    Committed =>
      LET res == DoLayout(FreshItems, lastCall.rect, FALSE)
      IN  itemList = res.items /\ lastCall.ret = res.ret
\* A commit pass that found every item already where it puts it: the same
\* rectangle and hints were laid out before.
C7_Witness ==
    /\ Committed
    /\ NItems >= 2
    /\ Cardinality(RowYs) >= 2
    /\ ~lastCall.moved

\* C8: the total height of a commit pass is the sum over the rows of each
\* row's tallest item, which is the last row's y plus its tallest height minus
\* originY; with no items the height is 0 (in both modes).
C8_TotalHeight ==
    /\ Committed =>
         lastCall.ret = SumRowTallest(RowYs)
    /\ (Committed /\ NItems > 0) =>
         lastCall.ret = GeomOf(NItems).y + RowTallestAt(GeomOf(NItems).y) - lastCall.rect.y
    /\ ((Committed \/ Measured) /\ NItems = 0) => lastCall.ret = 0
C8_Witness ==
    /\ Committed
    /\ lastCall.rect.y # 0
    /\ Cardinality(RowYs) >= 2
    /\ \E i, j \in 1..NItems :
         GeomOf(i).y = GeomOf(j).y /\ HintOf(i).h # HintOf(j).h

\* C9: a single item is placed at (originX, originY) with its hinted size,
\* whatever the container width, and the total height is the item's height.
C9_SingleItem ==
    /\ (Committed /\ NItems = 1) =>
         /\ GeomOf(1) = QRect(lastCall.rect.x, lastCall.rect.y, HintOf(1).w, HintOf(1).h)
         /\ lastCall.ret = HintOf(1).h
    /\ (Measured /\ NItems = 1) => lastCall.ret = HintOf(1).h
C9_Witness ==
    /\ Committed
    /\ NItems = 1
    /\ HintOf(1) = Hint(200, 30)
    /\ lastCall.rect.x = 0 /\ lastCall.rect.y = 0 /\ lastCall.rect.w = 100
    /\ GeomOf(1) = QRect(0, 0, 200, 30)
    /\ lastCall.ret = 30

\* C17 (as claimed): after a commit pass every item that is not the first of
\* its row ends within the right edge the wrap test uses (rect.right()); only
\* the first item of a row may reach past it.
FirstOfRow(i) == \A j \in 1..(i - 1) : GeomOf(j).y # GeomOf(i).y
C17_OnlyRowHeadsOverflow ==
    Committed =>
      \A i \in 1..NItems :
        ~FirstOfRow(i) => GeomOf(i).x + HintOf(i).w <= QRectRight(lastCall.rect)

\* C18: after a commit pass every item has x >= originX and y >= originY, y
\* is non-decreasing in item order, an item on the row of its predecessor
\* starts exactly where the predecessor ends, and the first item is at
\* (originX, originY).
C18_MonotoneGapFree ==
    Committed =>
      /\ \A i \in 1..NItems :
           GeomOf(i).x >= lastCall.rect.x /\ GeomOf(i).y >= lastCall.rect.y
      /\ \A i \in 2..NItems :
           /\ GeomOf(i - 1).y <= GeomOf(i).y
           /\ GeomOf(i).y = GeomOf(i - 1).y
                => GeomOf(i).x = GeomOf(i - 1).x + HintOf(i - 1).w
      /\ NItems > 0 =>
           GeomOf(1).x = lastCall.rect.x /\ GeomOf(1).y = lastCall.rect.y
C18_Witness ==
    /\ Committed
    /\ lastCall.rect.x # 0 /\ lastCall.rect.y # 0
    /\ NItems >= 3
    /\ Cardinality(RowYs) >= 2
    /\ \E i \in 2..NItems :
         GeomOf(i).y = GeomOf(i - 1).y /\ GeomOf(i).x > GeomOf(i - 1).x

(***************************************************************************)
(* Properties of the docker, checked under Spec.                           *)
(***************************************************************************)
ButtonTexts(btns) == [i \in 1..Len(btns) |-> btns[i].text]

\* C10 (as claimed): with the host selector found, after _initialize and
\* after every handled change of the host's item list the button labels are
\* the host's item labels, in order and multiplicity.  Only runs in which no
\* file operation has failed are looked at.
C10_ButtonsMirrorItems ==
    [][(/\ combo'
        /\ faults' = 0
        /\ (started' # started \/ hostItems' # hostItems))
         => ButtonTexts(buttons') = hostItems']_vars

\* C11 (as claimed, the part it singles out): in every state between
\* handlers no button is checked whose label differs from the host
\* selector's current text.  Only runs in which no file operation has failed
\* are looked at.
HostText == CurrentText(hostItems, hostIndex)
C11_CheckedMirrorsSelection ==
    faults = 0 =>
      \A i \in 1..Len(buttons) : buttons[i].checked => buttons[i].text = HostText

\* C12 (as claimed): with the host selector held, when _on_button_clicked
\* returns the host selector's current text is the label of the clicked
\* button (the one button checked after the click).  Only runs in which no
\* file operation has failed are looked at.
C12_ClickWritesBack ==
    [][(ButtonClicked /\ combo /\ faults = 0)
         => \A i \in 1..Len(buttons') :
              buttons'[i].checked
                => buttons'[i].text = CurrentText(hostItems', hostIndex')]_vars

\* C13: the _changing guard.  A click on button k leaves the buttons as the
\* click itself set them (k checked), so the selection change the click
\* causes does not run _sync_button_state; a selection change the host makes
\* itself leaves the buttons as _sync_button_state sets them for the new
\* current text, and so does every other step, not a click, that changes the
\* host's current text; and the guard flag is False between handlers.
C13_GuardedSync ==
    [][/\ ~changing /\ ~changing'
       /\ \A k \in 1..Len(buttons) :
            OnButtonClicked(k) => buttons' = SetChecked(buttons, k, TRUE)
       /\ HostSelects
            => buttons' = SyncButtonState(buttons, CurrentText(hostItems', hostIndex'))
       /\ (~ButtonClicked /\ CurrentText(hostItems', hostIndex') # HostText)
            => buttons' = SyncButtonState(buttons', CurrentText(hostItems', hostIndex'))
      ]_vars

\* Two buttons carry the host's current text and the first of them is the
\* checked one: _sync_button_state would have left the last one checked, so
\* the first was clicked and no sync followed.
C13_Witness ==
    /\ Len(buttons) >= 2
    /\ buttons[1].text = buttons[2].text
    /\ buttons[1].checked
    /\ HostText = buttons[1].text

\* C14 (as claimed): when a write of the mirror file or a read of it fails
\* in a handler, the button list is empty when the handler returns.
C14_FailureEmptiesButtons ==
    [][faults' > faults => buttons' = <<>>]_vars

\* C15: with no host selector, _initialize finds none and returns: no handler
\* is connected, the mirror file stays as it was, nothing is built into the
\* flow, the button list stays empty, so no button exists whose click could
\* do anything, and no step changes the host's selection.
C15_MissingSelectorDisables ==
    [][~hostPresent
         => /\ ~combo'
            /\ tagsFile' = tagsFile
            /\ buttons = <<>> /\ buttons' = <<>>
            /\ hostIndex' = hostIndex /\ hostItems' = hostItems
            /\ faults' = faults /\ ~changing'
            /\ UNCHANGED layoutVars]_vars

\* _initialize has run without a host selector; the mirror file of an
\* earlier session is on disk, untouched, and there is no button.
C15_Witness ==
    /\ started /\ ~hostPresent /\ ~combo
    /\ tagsFile = FileOf(<< <<"b">> >>)
    /\ buttons = <<>>

\* C16 (as claimed): when _initialize returns, the button labels are the
\* non-blank lines of the mirror file, whether or not the host selector was
\* found.  Only runs in which no file operation has failed are looked at.
C16_StartupFromMirror ==
    [][(~started /\ started' /\ faults' = 0)
         => ButtonTexts(buttons') = ReadTags(tagsFile'.text)]_vars

\* C19: at most one button is checked.
CheckedButtons == {i \in 1..Len(buttons) : buttons[i].checked}
C19_AtMostOneChecked == Cardinality(CheckedButtons) <= 1

\* Two buttons carry the host's current text; _sync_button_state asked both
\* to be checked and the last one is.
C19_Witness ==
    /\ Len(buttons) >= 2
    /\ buttons[1].text = buttons[2].text
    /\ HostText = buttons[2].text
    /\ CheckedButtons = {2}

=============================================================================
